---- MODULE Spec2Model ----
(***************************************************************************)
(* PyBackPilot: FivePaisaDownloader (src/downloader/FivaPaisaDownloader.py) *)
(* and its driver (src/main.py).                                            *)
(*                                                                          *)
(* The state is the downloader object (client), the files it keeps on disk  *)
(* (the master-list csv, the sqlite lookup table, the per-security          *)
(* artifacts) and the position of the operation in progress.  The remote    *)
(* collaborators (get_totp_session, get_scrips, historical_data) answer     *)
(* nondeterministically.  The variables calls, writes, visits, files_before *)
(* and empty_before are history variables: what the get_historical_data of  *)
(* this process has done, the artifacts it found when it was called, and    *)
(* the artifacts for which the process before got an empty daily answer.    *)
(* connect_log and master_before are history variables of the connect() in  *)
(* progress or last made: the collaborator calls and steps it went through, *)
(* and the age and content of the master list and of the lookup table that  *)
(* check_and_update_scrip_master found.  Both are dropped when connect()    *)
(* returns to its caller.                                                   *)
(*                                                                          *)
(* Strings that the code takes apart (names, dates) are tuples: a name is a *)
(* tuple of characters, a date string "YYYY-MM-DD" is <<Y, M, D>>, and the  *)
(* empty string is <<>>.  A datetime is its proleptic Gregorian ordinal     *)
(* (every datetime the code builds is at midnight).                         *)
(***************************************************************************)
EXTENDS Integers, Sequences, FiniteSets, TLC

VARIABLES client, pc, attempt, status, csv, db, dirs, files,
          req, scrip_codes_map, idx, current_date, data_frames,
          calls, writes, visits, files_before, empty_before,
          connect_log, master_before

vars == <<client, pc, attempt, status, csv, db, dirs, files,
          req, scrip_codes_map, idx, current_date, data_frames,
          calls, writes, visits, files_before, empty_before,
          connect_log, master_before>>

(***************************************************************************)
(* Bounds of the model.                                                     *)
(***************************************************************************)
\* longest scrip_names list a request carries
MaxNames == 2

(***************************************************************************)
(* Calendar: datetime.strptime(s, "%Y-%m-%d") and strftime("%Y-%m-%d").     *)
(***************************************************************************)
Years == 2019..2027

IsLeap(y) == (y % 4 = 0) /\ ((y % 100 # 0) \/ (y % 400 = 0))

DaysInMonth(y, m) ==
    IF m = 2 THEN (IF IsLeap(y) THEN 29 ELSE 28)
    ELSE IF m \in {4, 6, 9, 11} THEN 30 ELSE 31

DaysBeforeYear(y) ==
    (y - 1) * 365 + ((y - 1) \div 4) - ((y - 1) \div 100) + ((y - 1) \div 400)

RECURSIVE DaysBeforeMonth(_, _)
DaysBeforeMonth(y, m) ==
    IF m = 1 THEN 0 ELSE DaysBeforeMonth(y, m - 1) + DaysInMonth(y, m - 1)

\* datetime.strptime(date, "%Y-%m-%d"): the datetime (ordinal) of a date string
strptime(date) == DaysBeforeYear(date[1]) + DaysBeforeMonth(date[1], date[2]) + date[3]

\* datetime.strftime("%Y-%m-%d"): the date string of a datetime (ordinal)
strftime(n) ==
    LET y == CHOOSE yy \in Years : DaysBeforeYear(yy) < n /\ n <= DaysBeforeYear(yy + 1)
        r == n - DaysBeforeYear(y)
        m == CHOOSE mm \in 1..12 :
                 DaysBeforeMonth(y, mm) < r /\ r <= DaysBeforeMonth(y, mm) + DaysInMonth(y, mm)
    IN  <<y, m, r - DaysBeforeMonth(y, m)>>

\* a chunk one day short
time_delta_short == 180 - 1

\* timedelta(days=180) of get_historical_intraday_data
time_delta == 180

(***************************************************************************)
(* Configuration set by __init__.                                           *)
(***************************************************************************)
time_list == {"1m", "5m", "10m", "15m", "30m", "60m", "1d"}

exchange_map == [e \in {"N", "B", "M", "n"} |->
    CASE e = "N" -> "NSE" [] e = "B" -> "BSE" [] e = "M" -> "MCX" [] e = "n" -> "NCDEX"]

exchange_segment_map == [s \in {"c", "d", "u", "x", "y"} |->
    CASE s = "c" -> "Cash" [] s = "d" -> "Derivatives" [] s = "u" -> "Currency_Derivatives"
      [] s = "x" -> "NCDEX_Commodity" [] s = "y" -> "NSE_BSE_Commodity"]

\* dict.get(key, key)
MapGet(map, key) == IF key \in DOMAIN map THEN map[key] ELSE key

(***************************************************************************)
(* Text: characters, sqlite's NOCASE folding, LIKE '%name%'.                *)
(***************************************************************************)
Lower(c) == CASE c = "A" -> "a" [] c = "B" -> "b" [] c = "N" -> "n" [] OTHER -> c

LowerStr(s) == [k \in 1..Len(s) |-> Lower(s[k])]

\* text = ? COLLATE NOCASE
EqNoCase(s, t) == LowerStr(s) = LowerStr(t)

\* text LIKE '%' || pattern || '%' (ASCII case-insensitive; the names of the
\* model hold no LIKE wildcard)
Like(text, pattern) ==
    \E k \in 0..(Len(text) - Len(pattern)) :
        LowerStr(SubSeq(text, k + 1, k + Len(pattern))) = LowerStr(pattern)

(***************************************************************************)
(* The master list and the sqlite table scrip_master.  A table is the       *)
(* sequence of its rows in rowid order, which is the order a SELECT         *)
(* without ORDER BY scans them in.                                          *)
(***************************************************************************)
MasterRow(exch, type, code, name, full) ==
    [Exch |-> exch, ExchType |-> type, ScripCode |-> code, Name |-> name,
     Expiry |-> "", StrikeRate |-> 0, FullName |-> full, Series |-> "EQ"]

\* the answers client.get_scrips() can give (besides None)
MasterLists ==
    { << MasterRow("N", "C", 1, <<"A", "B">>, "AB LTD"),
         MasterRow("B", "C", 2, <<"A">>, "A LTD"),
         MasterRow("n", "X", 3, <<"B">>, "B COMMODITY") >>,
      << MasterRow("B", "C", 2, <<"A">>, "A LTD"),
         MasterRow("N", "C", 4, <<"A">>, "A LTD") >> }

selected_cols == {"Exch", "ExchType", "ScripCode", "Name", "Expiry", "StrikeRate", "FullName"}

\* the text columns of the master list that the model leaves empty in some row
text_cols == {"Expiry"}

\* pd.read_csv of what to_csv wrote: an empty field is read as NaN (and
\* stored as NULL by to_sql); every other value of the model is read back
\* as it was written
read_csv(csv_rows) ==
    [k \in 1..Len(csv_rows) |->
        [c \in DOMAIN csv_rows[k] |->
            IF c \in text_cols /\ csv_rows[k][c] = "" THEN "NaN" ELSE csv_rows[k][c]]]

\* df[selected_cols]
Project(frame) == [k \in 1..Len(frame) |-> [c \in selected_cols |-> frame[k][c]]]

\* df.to_sql with if_exists="append": the rows are added to the table
store_appending(csv_rows) ==
    [exists |-> TRUE, rows |-> db.rows \o Project(read_csv(csv_rows))]

\* df = pd.read_csv(csv_path); df = df[selected_cols];
\* df.to_sql("scrip_master", conn, if_exists="replace")
store_scrip_master_to_db(csv_rows) ==
    [exists |-> TRUE, rows |-> Project(read_csv(csv_rows))]

Min(S) == CHOOSE x \in S : \A y \in S : x <= y

\* cursor.fetchone(): the first row of the scan among the rowids that
\* match, or None (<<>>)
fetchone(rows, hits) == IF hits = {} THEN <<>> ELSE <<rows[Min(hits)]>>

\* WHERE Name = ? AND Exch = '<exch>' COLLATE NOCASE: the postfix COLLATE
\* binds to the literal, so it is the exchange that is compared ignoring
\* case; Name is compared with the column's BINARY collation
WhereExact(row, name, exch) == row.Name = name /\ EqNoCase(<<row.Exch>>, <<exch>>)

SelectExact(rows, name, exch) == {k \in 1..Len(rows) : WhereExact(rows[k], name, exch)}

\* WHERE Name LIKE ? AND Exch = '<exch>' COLLATE NOCASE, with ? = %name%
WhereLike(row, name, exch) == Like(row.Name, name) /\ EqNoCase(<<row.Exch>>, <<exch>>)

SelectLike(rows, name, exch) == {k \in 1..Len(rows) : WhereLike(rows[k], name, exch)}

\* get_scrip_code_by_name: [exc, value, searched_partially, tier, warned];
\* value is <<>> for None and <<code>> for a code; exc is "" when the call
\* returns; warned says that the "partially searched ... Please verify" line
\* was logged
get_scrip_code_by_name(table, name) ==
    IF ~table.exists
    THEN [exc |-> "OperationalError", value |-> <<>>, searched_partially |-> FALSE, tier |-> 0,
          warned |-> FALSE]
    ELSE
    LET rows == table.rows
        r1 == fetchone(rows, SelectExact(rows, name, "N"))
        r2 == IF r1 = <<>> THEN fetchone(rows, SelectExact(rows, name, "B")) ELSE r1
        r3 == IF r2 = <<>> THEN fetchone(rows, SelectLike(rows, name, "N")) ELSE r2
        r4 == IF r3 = <<>> THEN fetchone(rows, SelectLike(rows, name, "B")) ELSE r3
        partial == (r2 = <<>>)
        tier == IF r1 # <<>> THEN 1 ELSE IF r2 # <<>> THEN 2
                ELSE IF r3 # <<>> THEN 3 ELSE IF r4 # <<>> THEN 4 ELSE 0
    IN  IF partial /\ r4 = <<>>
        THEN \* the log line of the partial search evaluates result[0] on None:
             \* the f-string raises before logger.info is called
             [exc |-> "TypeError", value |-> <<>>, searched_partially |-> TRUE, tier |-> 0,
              warned |-> FALSE]
        ELSE [exc |-> "", value |-> IF r4 = <<>> THEN <<>> ELSE <<r4[1].ScripCode>>,
              searched_partially |-> partial, tier |-> tier, warned |-> partial]

\* get_scrip_name_by_code: <<>> for None, else <<(Name, FullName, Exch)>>
get_scrip_name_by_code(table, scrip_code) ==
    LET r == fetchone(table.rows, {k \in 1..Len(table.rows) : table.rows[k].ScripCode = scrip_code})
    IN  IF r = <<>> THEN <<>> ELSE << <<r[1].Name, r[1].FullName, r[1].Exch>> >>

\* the loop of get_historical_data over scrip_names: [exc, codes]
RECURSIVE FetchScripCodes(_, _, _, _)
FetchScripCodes(table, scrip_names, i, fetched_scrip_codes) ==
    IF i > Len(scrip_names) THEN [exc |-> "", codes |-> fetched_scrip_codes]
    ELSE LET r == get_scrip_code_by_name(table, scrip_names[i])
         IN  IF r.exc # "" THEN [exc |-> r.exc, codes |-> fetched_scrip_codes]
             ELSE IF r.value = <<>>
                  THEN [exc |-> "NoMatchesFound", codes |-> fetched_scrip_codes]
                  ELSE FetchScripCodes(table, scrip_names, i + 1,
                                       Append(fetched_scrip_codes, r.value[1]))

\* the loop of get_historical_data over fetched_scrip_codes: [exc, names]
RECURSIVE FetchScripNames(_, _, _, _)
FetchScripNames(table, codes, i, scrip_names_corrected) ==
    IF i > Len(codes) THEN [exc |-> "", names |-> scrip_names_corrected]
    ELSE LET r == get_scrip_name_by_code(table, codes[i])
         IN  IF r = <<>> THEN [exc |-> "CouldNotFindScripName", names |-> scrip_names_corrected]
             ELSE FetchScripNames(table, codes, i + 1, Append(scrip_names_corrected, r[1][1]))

\* d[key] = value on a dict kept as the sequence of its items in insertion order
DictSet(d, key, value) ==
    IF \E k \in 1..Len(d) : d[k].scrip_code = key
    THEN [k \in 1..Len(d) |-> IF d[k].scrip_code = key
                              THEN [scrip_code |-> key, scrip_name |-> value] ELSE d[k]]
    ELSE Append(d, [scrip_code |-> key, scrip_name |-> value])

\* dict(zip(fetched_scrip_codes, scrip_names_corrected))
RECURSIVE DictZip(_, _, _, _)
DictZip(codes, names, i, d) ==
    IF i > Len(codes) \/ i > Len(names) THEN d
    ELSE DictZip(codes, names, i + 1, DictSet(d, codes[i], names[i]))

(***************************************************************************)
(* Request validation and the artifact path.                                *)
(***************************************************************************)
\* validate_exchange_segment_and_time without its last check
validate_without_segment(time_period, exchange, exchange_segment) ==
    IF time_period \notin time_list THEN "InvalidTimeFrame"
    ELSE IF exchange \notin DOMAIN exchange_map THEN "InvalidExchange"
    ELSE ""

\* validate_exchange_segment_and_time: the exception raised, "" for none
validate_exchange_segment_and_time(time_period, exchange, exchange_segment) ==
    IF time_period \notin time_list THEN "InvalidTimeFrame"
    ELSE IF exchange \notin DOMAIN exchange_map THEN "InvalidExchange"
    ELSE IF exchange_segment \notin DOMAIN exchange_segment_map THEN "InvalidExchangeSegment"
    ELSE ""

\* the checks get_historical_data makes before it resolves a name
CheckArguments(cl, r) ==
    IF r.exchange = "" \/ r.exchange_segment = "" \/ Len(r.scrip_names) = 0
       \/ r.time_period = "" \/ r.from_date = <<>> \/ r.to_date = <<>>
    THEN "ArgumentsMissing"
    ELSE IF cl = "None" THEN "NotConnected"
    ELSE validate_exchange_segment_and_time(r.time_period, r.exchange, r.exchange_segment)

\* file_name of a security: the fields the f-string joins
FileName(r, scrip_name) ==
    [scrip_name |-> scrip_name,
     exchange_name |-> MapGet(exchange_map, r.exchange),
     exchange_segment_name |-> MapGet(exchange_segment_map, r.exchange_segment),
     time_period |-> r.time_period, from_date |-> r.from_date, to_date |-> r.to_date]

\* os.path.exists of a path built with the start date in the place of the end date
PathExistsWrongDate(fs, file_name) ==
    \E f \in fs : f.file_name = [file_name EXCEPT !.to_date = file_name.from_date]

\* os.path.exists that never finds the file
PathNeverExists(fs, file_name) == FALSE

\* os.path.exists(file_name)
PathExists(fs, file_name) == \E f \in fs : f.file_name = file_name

\* save_to_csv: df.to_csv(filename) replaces whatever the path held
WriteCsv(fs, file_name, rows) ==
    {f \in fs : f.file_name # file_name} \cup {[file_name |-> file_name, rows |-> rows]}

\* os.makedirs(os.path.dirname(filename)) when the directory is missing
MakeDirs(ds, file_name) == ds \cup {<<"data">>, <<"data", file_name.scrip_name>>}

(***************************************************************************)
(* The answers of client.historical_data: None, an empty frame, or a frame  *)
(* with one candle stamped with the first day asked for.                    *)
(***************************************************************************)
NoneFrame == [none |-> TRUE, rows |-> <<>>]

EmptyFrame == [none |-> FALSE, rows |-> <<>>]

Candles(scrip_code, from_date) ==
    [none |-> FALSE,
     rows |-> << [scrip_code |-> scrip_code, Datetime |-> <<from_date, "09:15:00">>] >>]

historical_data(scrip_code, from_date) == {NoneFrame, EmptyFrame, Candles(scrip_code, from_date)}

\* a check for None that never fires
IsNoneNever(df) == FALSE

\* data_frame is None
IsNone(df) == df.none

\* a check for emptiness that never fires
IsEmptyNever(df) == FALSE

\* data_frame.empty
IsEmpty(df) == df.rows = <<>>

\* a check of len(data_frames) that never fires
NoDataNever(frames) == FALSE

\* len(data_frames) == 0
NoData(frames) == Len(frames) = 0

\* data_frame['Datetime'].apply(lambda x: strptime(str(x), ...).date())
NormalizeDatetime(rows) ==
    [k \in 1..Len(rows) |-> [rows[k] EXCEPT !.Datetime = <<rows[k].Datetime[1]>>]]

\* a concatenation that puts the later frames first
RECURSIVE ConcatReversed(_)
ConcatReversed(frames) ==
    IF frames = <<>> THEN <<>> ELSE ConcatReversed(Tail(frames)) \o Head(frames)

\* pd.concat(data_frames)
RECURSIVE Concat(_)
Concat(frames) == IF frames = <<>> THEN <<>> ELSE Head(frames) \o Concat(Tail(frames))

(***************************************************************************)
(* The requests the callers of the model make.                              *)
(***************************************************************************)
\* the names a caller asks for: an exact name, the same name in lower case,
\* and a name no record holds
ReqNames == { <<"A">>, <<"a">>, <<"Z">> }

NameLists(n) == UNION { [1..k -> ReqNames] : k \in 0..n }

Request(exchange, exchange_segment, scrip_names, time_period, from_date, to_date) ==
    [exchange |-> exchange, exchange_segment |-> exchange_segment, scrip_names |-> scrip_names,
     time_period |-> time_period, from_date |-> from_date, to_date |-> to_date]

\* requests of the repeated runs: one range of a single chunk, both paths
WorkRequests ==
    { Request("N", "c", ns, tp, <<2020, 1, 1>>, <<2020, 3, 1>>) :
          ns \in NameLists(MaxNames), tp \in {"1d", "30m"} }
    \cup { Request("N", "c", << <<"A">> >>, "2h", <<2020, 1, 1>>, <<2020, 3, 1>>),
           Request("B", "c", << <<"A">> >>, "1d", <<2020, 1, 1>>, <<2020, 3, 1>>) }

\* longest range, in days past 2020-01-01, of the single-run requests
MaxSpan == 370

\* requests of the single runs: every combination of the validated fields
\* (each allowed value, an empty one and a foreign one), every name list on a
\* range of two chunks, every range from 2020-01-01 up to MaxSpan days, the
\* range of main.py included, and the name of a record of the exchange 'n'
WideRequests ==
    { Request(e, g, ns, tp, f, t) :
          e \in DOMAIN exchange_map \cup {"", "X"},
          g \in DOMAIN exchange_segment_map \cup {"", "q"},
          ns \in { <<>>, << <<"A">> >> },
          tp \in time_list \cup {"", "2h"},
          f \in { <<>>, <<2020, 1, 1>> },
          t \in { <<>>, <<2020, 3, 1>> } }
    \cup { Request("N", "c", ns, tp, <<2020, 1, 1>>, <<2020, 7, 1>>) :
               ns \in NameLists(MaxNames), tp \in {"1d", "30m"} }
    \cup { Request("N", "c", << <<"A">> >>, "30m", <<2020, 1, 1>>, strftime(strptime(<<2020, 1, 1>>) + k)) :
               k \in 0..MaxSpan }
    \cup { Request("N", "c", << <<"A">> >>, "30m", <<2020, 1, 1>>, <<2025, 5, 1>>),
           Request("N", "c", << <<"A">> >>, "30m", <<2020, 3, 1>>, <<2020, 1, 1>>),
           Request("N", "c", << <<"B">> >>, "1d", <<2020, 1, 1>>, <<2020, 3, 1>>) }

(***************************************************************************)
(* Initial state: a constructed downloader on a machine with no data yet.   *)
(***************************************************************************)
Idle(op, result) == [op |-> op, result |-> result]

\* no check_and_update_scrip_master has run in this connect()
NoRefresh == [age |-> -1, csv |-> [exists |-> FALSE, rows |-> <<>>],
              db |-> [exists |-> FALSE, rows |-> <<>>]]

Init ==
    /\ client = "None"
    /\ pc = "idle"
    /\ attempt = 0
    /\ status = Idle("none", "none")
    /\ csv = [exists |-> FALSE, rows |-> <<>>]
    /\ db = [exists |-> FALSE, rows |-> <<>>]
    /\ dirs = {}
    /\ files = {}
    /\ req = Request("", "", <<>>, "", <<>>, <<>>)
    /\ scrip_codes_map = <<>>
    /\ idx = 0
    /\ current_date = 0
    /\ data_frames = <<>>
    /\ calls = <<>>
    /\ writes = <<>>
    /\ visits = <<>>
    /\ files_before = {}
    /\ empty_before = {}
    /\ connect_log = <<>>
    /\ master_before = NoRefresh

runVars == <<req, scrip_codes_map, idx, current_date, data_frames, calls, writes, visits, files_before, empty_before>>

diskVars == <<csv, db, dirs, files>>

connectVars == <<connect_log, master_before>>

(***************************************************************************)
(* connect                                                                  *)
(***************************************************************************)
\* connect(), up to the first get_totp_session
Connect ==
    /\ pc = "idle"
    /\ status.op # "get_historical_data"
    /\ client' = "FivePaisaClient"
    /\ attempt' = 0
    /\ pc' = "auth"
    /\ status' = Idle("connect", "running")
    /\ UNCHANGED <<diskVars, runVars, connectVars>>

\* the answers of client.get_totp_session: a session, None, or an exception
Responses == {"session", "None", "raise"}

\* a login loop that logs the second failure and leaves the loop without raising
LoginSwallowingFailure ==
    /\ pc = "auth"
    /\ \E resp \in Responses :
          /\ connect_log' = Append(connect_log, resp)
          /\ IF resp = "session" \/ attempt # 0
             THEN /\ pc' = "refresh"
                  /\ UNCHANGED <<attempt, status>>
             ELSE /\ pc' = "sleep"
                  /\ UNCHANGED <<attempt, status>>
    /\ UNCHANGED <<client, diskVars, runVars, master_before>>

\* one pass of the login loop: get_totp_session answers a session, None, or raises
Login ==
    /\ pc = "auth"
    /\ \E resp \in Responses :
          /\ connect_log' = Append(connect_log, resp)
          /\ IF resp = "session"
             THEN /\ pc' = "refresh"
                  /\ UNCHANGED <<attempt, status>>
             ELSE IF attempt = 0
                  THEN /\ pc' = "sleep"
                       /\ UNCHANGED <<attempt, status>>
                  ELSE /\ pc' = "returning"
                       /\ status' = Idle("connect", "LoginFailed")
                       /\ attempt' = 0
    /\ UNCHANGED <<client, diskVars, runVars, master_before>>

\* time.sleep(30), then the second pass of the loop
Backoff ==
    /\ pc = "sleep"
    /\ attempt' = 1
    /\ pc' = "auth"
    /\ connect_log' = Append(connect_log, "sleep")
    /\ UNCHANGED <<client, status, diskVars, runVars, master_before>>

\* the days since scrip_master.csv was last written: less than seven,
\* seven, more than seven
Ages == {6, 7, 8}

\* a time to live two days longer
max_age_long == 7 + 2

\* timedelta(days=7) of check_and_update_scrip_master
max_age == 7

\* check_and_update_scrip_master, with setup_database and store_scrip_master_to_db;
\* age is datetime.now() - modified_time in days, scrip_data_frame the answer
\* of client.get_scrips() (<<>> for None)
CheckAndUpdateScripMaster ==
    /\ pc = "refresh"
    /\ pc' = "returning"
    /\ attempt' = 0
    /\ dirs' = dirs \cup {<<"data">>}
    /\ \E age \in Ages, scrip_data_frame \in MasterLists \cup {<<>>} :
          LET needs_update == ~(csv.exists /\ age < max_age)
          IN  /\ master_before' = [age |-> IF csv.exists THEN age ELSE -1, csv |-> csv, db |-> db]
              /\ IF needs_update
                 THEN IF scrip_data_frame = <<>>
                      THEN /\ status' = Idle("connect", "CouldNotFetchScripMaster")
                           /\ connect_log' = connect_log \o <<"refresh", "get_scrips:None">>
                           /\ UNCHANGED <<csv, db>>
                      ELSE /\ csv' = [exists |-> TRUE, rows |-> scrip_data_frame]
                           /\ db' = store_scrip_master_to_db(scrip_data_frame)
                           /\ status' = Idle("connect", "ok")
                           /\ connect_log' = connect_log \o
                                  <<"refresh", "get_scrips:rows", "to_csv", "to_sql">>
                 ELSE /\ db' = store_scrip_master_to_db(csv.rows)
                      /\ status' = Idle("connect", "ok")
                      /\ connect_log' = connect_log \o <<"refresh", "to_sql">>
                      /\ UNCHANGED csv
    /\ UNCHANGED <<client, files, runVars>>

\* connect() returns to its caller, or raises into it
ConnectReturns ==
    /\ pc = "returning"
    /\ pc' = "idle"
    /\ connect_log' = <<>>
    /\ master_before' = NoRefresh
    /\ UNCHANGED <<client, attempt, status, diskVars, runVars>>

(***************************************************************************)
(* get_historical_data                                                      *)
(***************************************************************************)
\* the first checks of get_historical_intraday_data: the exception, "" for none
CheckIntraday(time_period) ==
    IF time_period \notin {"1m", "5m", "10m", "15m", "30m", "60m"} THEN "InvalidTimeFrame" ELSE ""

\* the loop over scrip_names when a name without a match is skipped
RECURSIVE FetchScripCodesSkipping(_, _, _, _)
FetchScripCodesSkipping(table, scrip_names, i, fetched_scrip_codes) ==
    IF i > Len(scrip_names) THEN fetched_scrip_codes
    ELSE LET r == get_scrip_code_by_name(table, scrip_names[i])
         IN  FetchScripCodesSkipping(table, scrip_names, i + 1,
                 IF r.value = <<>> THEN fetched_scrip_codes
                 ELSE Append(fetched_scrip_codes, r.value[1]))

\* get_historical_data up to the first security, skipping the names that
\* have no match and going on with the others
PrepareSkipping(cl, table, r) ==
    LET e0 == CheckArguments(cl, r)
        codes == FetchScripCodesSkipping(table, r.scrip_names, 1, <<>>)
        rn == FetchScripNames(table, codes, 1, <<>>)
    IN  IF e0 # "" THEN [exc |-> e0, map |-> <<>>]
        ELSE IF ~table.exists THEN [exc |-> "OperationalError", map |-> <<>>]
        ELSE IF codes = <<>> THEN [exc |-> "CouldNotFindAll", map |-> <<>>]
        ELSE [exc |-> "", map |-> DictZip(codes, rn.names, 1, <<>>)]

\* get_historical_data up to the first security: the argument checks, the
\* resolution of every name to a code and back to a name, scrip_codes_map,
\* and the choice of the path; [exc, map]
Prepare(cl, table, r) ==
    LET e0 == CheckArguments(cl, r)
        rc == FetchScripCodes(table, r.scrip_names, 1, <<>>)
        rn == FetchScripNames(table, rc.codes, 1, <<>>)
    IN  IF e0 # "" THEN [exc |-> e0, map |-> <<>>]
        ELSE IF rc.exc # "" THEN [exc |-> rc.exc, map |-> <<>>]
        ELSE IF Len(rc.codes) # Len(r.scrip_names) THEN [exc |-> "CouldNotFindAll", map |-> <<>>]
        ELSE IF rn.exc # "" THEN [exc |-> rn.exc, map |-> <<>>]
        ELSE IF r.time_period # "1d" /\ CheckIntraday(r.time_period) # ""
             THEN [exc |-> CheckIntraday(r.time_period), map |-> <<>>]
        ELSE [exc |-> "", map |-> DictZip(rc.codes, rn.names, 1, <<>>)]

\* the caller calls get_historical_data with one of the given requests, as
\* main.py does: once in the life of the process
GetHistoricalData(requests) ==
    /\ pc = "idle"
    /\ status.op # "get_historical_data"
    /\ \E r \in requests :
          LET p == Prepare(client, db, r)
          IN  /\ req' = r
              /\ scrip_codes_map' = p.map
              /\ IF p.exc # ""
                 THEN /\ pc' = "idle"
                      /\ status' = Idle("get_historical_data", p.exc)
                 ELSE /\ pc' = IF r.time_period = "1d" THEN "daily" ELSE "intraday"
                      /\ status' = Idle("get_historical_data", "running")
    /\ idx' = 1
    /\ current_date' = 0
    /\ data_frames' = <<>>
    /\ calls' = <<>>
    /\ writes' = <<>>
    /\ visits' = <<>>
    /\ files_before' = files
    /\ UNCHANGED <<client, attempt, diskVars, empty_before, connectVars>>

Call(scrip_code, from_date, to_date, df) ==
    [scrip_code |-> scrip_code, time_period |-> req.time_period,
     from_date |-> from_date, to_date |-> to_date,
     answer |-> IF df.none THEN "None" ELSE IF df.rows = <<>> THEN "empty" ELSE "rows",
     rows |-> df.rows]

\* a save_to_csv, and the number of historical_data calls made before it
Write(file_name, rows, ncalls) == [file_name |-> file_name, rows |-> rows, ncalls |-> ncalls]

Visit(scrip_code, file_name, existed) ==
    [scrip_code |-> scrip_code, file_name |-> file_name, existed |-> existed]

\* the loop over scrip_codes_map moves to the next security, or the call returns
NextSecurity(loop) ==
    /\ idx' = idx + 1
    /\ IF idx = Len(scrip_codes_map)
       THEN /\ pc' = "idle"
            /\ status' = Idle("get_historical_data", "ok")
       ELSE /\ pc' = loop
            /\ UNCHANGED status

\* an exception leaves get_historical_data
Raise(exc) ==
    /\ pc' = "idle"
    /\ status' = Idle("get_historical_data", exc)
    /\ UNCHANGED idx

\* one pass of the daily loop
Daily ==
    /\ pc = "daily"
    /\ LET scrip_code == scrip_codes_map[idx].scrip_code
           scrip_name == scrip_codes_map[idx].scrip_name
           file_name  == FileName(req, scrip_name)
       IN  IF PathExists(files, file_name)
           THEN /\ visits' = Append(visits, Visit(scrip_code, file_name, TRUE))
                /\ NextSecurity("daily")
                /\ UNCHANGED <<files, dirs, calls, writes>>
           ELSE /\ visits' = Append(visits, Visit(scrip_code, file_name, FALSE))
                /\ \E data_frame \in historical_data(scrip_code, req.from_date) :
                      /\ calls' = Append(calls, Call(scrip_code, req.from_date, req.to_date, data_frame))
                      /\ IF IsNone(data_frame)
                         THEN /\ Raise("CouldNotFetch")
                              /\ UNCHANGED <<files, dirs, writes>>
                         ELSE IF IsEmpty(data_frame)
                         THEN /\ NextSecurity("daily")
                              /\ UNCHANGED <<files, dirs, writes>>
                         ELSE /\ files' = WriteCsv(files, file_name, NormalizeDatetime(data_frame.rows))
                              /\ dirs' = MakeDirs(dirs, file_name)
                              /\ writes' = Append(writes, Write(file_name,
                                                                NormalizeDatetime(data_frame.rows),
                                                                Len(calls) + 1))
                              /\ NextSecurity("daily")
    /\ UNCHANGED <<client, attempt, csv, db, req, scrip_codes_map, current_date, data_frames,
                   files_before, empty_before, connectVars>>

\* one pass of the intraday loop over the securities, up to the chunk loop
Intraday ==
    /\ pc = "intraday"
    /\ LET scrip_code == scrip_codes_map[idx].scrip_code
           scrip_name == scrip_codes_map[idx].scrip_name
           file_name  == FileName(req, scrip_name)
       IN  IF PathExists(files, file_name)
           THEN /\ visits' = Append(visits, Visit(scrip_code, file_name, TRUE))
                /\ NextSecurity("intraday")
                /\ UNCHANGED <<current_date, data_frames>>
           ELSE /\ visits' = Append(visits, Visit(scrip_code, file_name, FALSE))
                /\ current_date' = strptime(req.from_date)
                /\ data_frames' = <<>>
                /\ pc' = "chunk"
                /\ UNCHANGED <<idx, status>>
    /\ UNCHANGED <<client, attempt, diskVars, req, scrip_codes_map, calls, writes,
                   files_before, empty_before, connectVars>>

\* one pass of the chunk loop: while current_date < end_date
Chunk ==
    /\ pc = "chunk"
    /\ current_date < strptime(req.to_date)
    /\ LET scrip_code == scrip_codes_map[idx].scrip_code
           end_date == strptime(req.to_date)
           current_end_date == IF end_date <= current_date + time_delta
                               THEN end_date ELSE current_date + time_delta
       IN  \E data_frame \in historical_data(scrip_code, strftime(current_date)) :
              /\ calls' = Append(calls, Call(scrip_code, strftime(current_date),
                                             strftime(current_end_date), data_frame))
              /\ IF IsNone(data_frame)
                 THEN /\ Raise("CouldNotFetch")
                      /\ current_date' = 0
                      /\ data_frames' = <<>>
                 ELSE /\ data_frames' = IF IsEmpty(data_frame) THEN data_frames
                                        ELSE Append(data_frames, data_frame.rows)
                      /\ current_date' = current_end_date + 1
                      /\ UNCHANGED <<pc, status, idx>>
    /\ UNCHANGED <<client, attempt, diskVars, req, scrip_codes_map, writes, visits,
                   files_before, empty_before, connectVars>>

\* the chunk loop is over: NoDataInRange, or concat and save; the locals of
\* the security are dropped
ChunksDone ==
    /\ pc = "chunk"
    /\ ~(current_date < strptime(req.to_date))
    /\ LET file_name == FileName(req, scrip_codes_map[idx].scrip_name)
       IN  IF NoData(data_frames)
           THEN /\ Raise("NoDataFound")
                /\ UNCHANGED <<files, dirs, writes>>
           ELSE /\ files' = WriteCsv(files, file_name, Concat(data_frames))
                /\ dirs' = MakeDirs(dirs, file_name)
                /\ writes' = Append(writes, Write(file_name, Concat(data_frames), Len(calls)))
                /\ NextSecurity("intraday")
    /\ current_date' = 0
    /\ data_frames' = <<>>
    /\ UNCHANGED <<client, attempt, csv, db, req, scrip_codes_map, calls, visits,
                   files_before, empty_before, connectVars>>

(***************************************************************************)
(* Specifications.  Spec: process after process, each making one of a      *)
(* small set of requests.  SpecWide: one process, its request drawn from    *)
(* the wide set.                                                            *)
(***************************************************************************)
\* the process ends after get_historical_data returned or raised; the next
\* one constructs a new FivePaisaDownloader and finds the disk as it was left
Exit ==
    /\ pc = "idle"
    /\ status.op = "get_historical_data"
    /\ client' = "None"
    /\ status' = Idle("none", "none")
    /\ req' = Request("", "", <<>>, "", <<>>, <<>>)
    /\ scrip_codes_map' = <<>>
    /\ idx' = 0
    /\ calls' = <<>>
    /\ writes' = <<>>
    /\ visits' = <<>>
    /\ files_before' = files
    /\ empty_before' = IF req.time_period = "1d"
                       THEN {visits[k].file_name : k \in {j \in 1..Len(visits) :
                                \E c \in 1..Len(calls) : /\ calls[c].scrip_code = visits[j].scrip_code
                                                         /\ calls[c].answer = "empty"}}
                       ELSE {}
    /\ UNCHANGED <<pc, attempt, diskVars, current_date, data_frames, connectVars>>

Next ==
    \/ Connect
    \/ Login
    \/ Backoff
    \/ CheckAndUpdateScripMaster
    \/ ConnectReturns
    \/ GetHistoricalData(WorkRequests)
    \/ Daily
    \/ Intraday
    \/ Chunk
    \/ ChunksDone
    \/ Exit

Spec == Init /\ [][Next]_vars

NextWide ==
    \/ Connect
    \/ Login
    \/ Backoff
    \/ CheckAndUpdateScripMaster
    \/ ConnectReturns
    \/ GetHistoricalData(WideRequests)
    \/ Daily
    \/ Intraday
    \/ Chunk
    \/ ChunksDone

SpecWide == Init /\ [][NextWide]_vars

(***************************************************************************)
(* Vocabulary of the properties, stated from the specification and not     *)
(* from the operators above.                                                *)
(***************************************************************************)
Called == status.op = "get_historical_data"

Finished == Called /\ pc = "idle"

Granularities == {"1m", "5m", "10m", "15m", "30m", "60m", "1d"}

Exchanges == {"N", "B", "M", "n"}

Segments == {"c", "d", "u", "x", "y"}

SomeArgumentEmpty(r) ==
    \/ r.exchange = "" \/ r.exchange_segment = "" \/ r.time_period = ""
    \/ r.from_date = <<>> \/ r.to_date = <<>> \/ r.scrip_names = <<>>

Malformed(r) ==
    \/ SomeArgumentEmpty(r)
    \/ r.time_period \notin Granularities
    \/ r.exchange \notin Exchanges
    \/ r.exchange_segment \notin Segments

\* the exceptions of the code that are the InvalidRequest of the specification
InvalidRequest == {"ArgumentsMissing", "InvalidTimeFrame", "InvalidExchange", "InvalidExchangeSegment"}

NothingFetchedOrWritten == calls = <<>> /\ writes = <<>> /\ files = files_before

(***************************************************************************)
(* C1.  As claimed: every call of get_historical_data with a granularity,  *)
(* exchange or segment outside the allowed values, or with an empty        *)
(* argument, fails with InvalidRequest before any historical_data call and *)
(* before any artifact is written, and a call with allowed values is not   *)
(* rejected as invalid.  The code checks self.client between the emptiness *)
(* check and the validation, so on a downloader that was never connected a *)
(* bad enum value is answered with "Not connected" instead.                *)
(***************************************************************************)
\* C1 as claimed: a malformed request always fails with InvalidRequest, with
\* nothing fetched or written; a well-formed one is never InvalidRequest
C1_AsClaimed ==
    Called =>
        /\ Malformed(req) => status.result \in InvalidRequest /\ NothingFetchedOrWritten
        /\ ~Malformed(req) => status.result \notin InvalidRequest

\* C1 as amended: a malformed request fails with nothing fetched or written;
\* the error is InvalidRequest, except that a request with no empty argument
\* made on a downloader that is not connected fails with NotConnected; a
\* well-formed request is never InvalidRequest
C1_Validation ==
    Called =>
        /\ Malformed(req) =>
              /\ NothingFetchedOrWritten
              /\ IF client = "None" /\ ~SomeArgumentEmpty(req)
                 THEN status.result = "NotConnected"
                 ELSE status.result \in InvalidRequest
        /\ ~Malformed(req) => status.result \notin InvalidRequest

\* a connected downloader with a lookup table rejected a request whose only
\* fault is its segment
C1_Witness ==
    /\ Finished
    /\ client = "FivePaisaClient" /\ db.exists
    /\ req.exchange = "N" /\ req.exchange_segment = "q" /\ req.time_period = "1d"
    /\ ~SomeArgumentEmpty(req)
    /\ status.result = "InvalidExchangeSegment"

(***************************************************************************)
(* The artifact of a security, and the calls and writes made for it.       *)
(***************************************************************************)
\* the path of the artifact of a security of the request in progress
ArtifactPath(scrip_name) ==
    [scrip_name |-> scrip_name,
     exchange_name |-> CASE req.exchange = "N" -> "NSE" [] req.exchange = "B" -> "BSE"
                         [] req.exchange = "M" -> "MCX" [] req.exchange = "n" -> "NCDEX",
     exchange_segment_name |->
         CASE req.exchange_segment = "c" -> "Cash" [] req.exchange_segment = "d" -> "Derivatives"
           [] req.exchange_segment = "u" -> "Currency_Derivatives"
           [] req.exchange_segment = "x" -> "NCDEX_Commodity"
           [] req.exchange_segment = "y" -> "NSE_BSE_Commodity",
     time_period |-> req.time_period, from_date |-> req.from_date, to_date |-> req.to_date]

ArtifactIn(fs, path) == \E f \in fs : f.file_name = path

\* the k-th security of the request in progress
SecurityCode(k) == scrip_codes_map[k].scrip_code

SecurityPath(k) == ArtifactPath(scrip_codes_map[k].scrip_name)

\* the positions in calls of the historical_data calls made for a code
CallsFor(code) == {c \in 1..Len(calls) : calls[c].scrip_code = code}

WritesAt(path) == {w \in 1..Len(writes) : writes[w].file_name = path}

\* the artifact of the k-th security was there when the loop reached it:
\* found at the call, or written by a security before it
ExistedWhenReached(k) ==
    \/ ArtifactIn(files_before, SecurityPath(k))
    \/ \E j \in 1..(k - 1) : SecurityPath(j) = SecurityPath(k) /\ WritesAt(SecurityPath(j)) # {}

Day(date) == strptime(date)

(***************************************************************************)
(* C2.  Idempotence: a run that finds the artifact of every requested      *)
(* security on disk issues no historical_data call and writes nothing, on  *)
(* the daily and on the intraday path, and returns normally.               *)
(***************************************************************************)
\* C2: when the artifact of every security of the request existed at the
\* call, the run makes no fetch, writes nothing, and ends without error
C2_Idempotent ==
    (Called /\ scrip_codes_map # <<>>
       /\ \A k \in 1..Len(scrip_codes_map) : ArtifactIn(files_before, SecurityPath(k)))
    => /\ NothingFetchedOrWritten
       /\ status.result \in {"running", "ok"}
       /\ Finished => Len(visits) = Len(scrip_codes_map)

\* an intraday run over two securities whose artifacts both existed has returned
C2_Witness ==
    /\ Finished /\ status.result = "ok"
    /\ req.time_period = "30m"
    /\ Len(scrip_codes_map) = 2
    /\ \A k \in 1..2 : ArtifactIn(files_before, SecurityPath(k))
    /\ calls = <<>>

(***************************************************************************)
(* C3.  Intraday chunk sequence: the calls issued for one security are     *)
(* consecutive chunks; the first starts at the start date, each spans      *)
(* exactly 180 days except the last, which may end at the end date         *)
(* instead, and each next chunk starts the day after the one before ends.  *)
(***************************************************************************)
\* the calls made for a code, in the order they were made
RECURSIVE CallSeq(_, _)
CallSeq(code, n) ==
    IF n = 0 THEN <<>>
    ELSE IF calls[n].scrip_code = code THEN Append(CallSeq(code, n - 1), calls[n])
    ELSE CallSeq(code, n - 1)

ChunkSequenceOk(cs) ==
    /\ cs # <<>> => cs[1].from_date = req.from_date
    /\ \A i \in 1..Len(cs) :
          \/ Day(cs[i].to_date) - Day(cs[i].from_date) = 180
          \/ /\ i = Len(cs)
             /\ cs[i].to_date = req.to_date
             /\ Day(cs[i].to_date) - Day(cs[i].from_date) < 180
             /\ Day(cs[i].to_date) > Day(cs[i].from_date)
    /\ \A i \in 1..(Len(cs) - 1) : Day(cs[i + 1].from_date) = Day(cs[i].to_date) + 1

\* C3: on the intraday path with start < end, the calls of every security
\* form chunks of exactly 180 days, the last one cut at the end date, each
\* starting one day after the one before ends
C3_ChunkSequence ==
    (Called /\ req.time_period # "1d" /\ scrip_codes_map # <<>>
       /\ Day(req.from_date) < Day(req.to_date))
    => \A k \in 1..Len(scrip_codes_map) : ChunkSequenceOk(CallSeq(SecurityCode(k), Len(calls)))

\* the request of main.py, 2020-01-01 to 2025-05-01 at 30m, was served in
\* eleven chunks, the last one running from 2024-12-15 to 2025-05-01
C3_Witness ==
    /\ Finished /\ status.result = "ok"
    /\ req.time_period = "30m"
    /\ req.from_date = <<2020, 1, 1>> /\ req.to_date = <<2025, 5, 1>>
    /\ Len(calls) = 11
    /\ calls[2].from_date = <<2020, 6, 30>> /\ calls[2].to_date = <<2020, 12, 27>>
    /\ calls[11].from_date = <<2024, 12, 15>> /\ calls[11].to_date = <<2025, 5, 1>>

(***************************************************************************)
(* C4.  Intraday range coverage: when no chunk is unavailable, every day   *)
(* from the start date to the end date, the end date included, lies in     *)
(* exactly one chunk issued for the security.  The chunk loop runs while   *)
(* current_date < end_date, so the end date is left out when it falls on   *)
(* the day after a chunk, and no chunk at all is issued when start = end.  *)
(***************************************************************************)
\* the chunk loop of the k-th security ran to its end
ChunksCompleted(k) ==
    /\ k <= Len(visits)
    /\ ~ExistedWhenReached(k)
    /\ \/ k < Len(visits)
       \/ Finished /\ status.result \in {"ok", "NoDataFound"}

\* C4: once the chunk loop of a security ran to its end, every day of
\* [start, end] lies in exactly one of its chunks
C4_RangeCovered ==
    (Called /\ req.time_period # "1d" /\ scrip_codes_map # <<>>
       /\ Day(req.from_date) <= Day(req.to_date))
    => \A k \in 1..Len(scrip_codes_map) :
          ChunksCompleted(k) =>
             \A d \in Day(req.from_date)..Day(req.to_date) :
                Cardinality({c \in CallsFor(SecurityCode(k)) :
                                Day(calls[c].from_date) <= d /\ d <= Day(calls[c].to_date)}) = 1

(***************************************************************************)
(* C5.  Resolution tier order: a name that is an exact (case-insensitive)  *)
(* match of a Secondary record and only a substring match of a Primary     *)
(* record resolves to the exact Secondary record.  The Name comparison of  *)
(* tiers 1 and 2 is case-sensitive in the code (COLLATE NOCASE binds to    *)
(* the exchange literal), so a name in another letter case falls through   *)
(* to tier 3.                                                               *)
(***************************************************************************)
\* the call got as far as resolving the names
ResolutionRan == Called /\ ~Malformed(req) /\ client # "None" /\ db.exists

ExactOn(exch, name) ==
    {k \in 1..Len(db.rows) : db.rows[k].Exch = exch /\ LowerStr(db.rows[k].Name) = LowerStr(name)}

SubstringOn(exch, name) ==
    {k \in 1..Len(db.rows) : db.rows[k].Exch = exch /\ Like(db.rows[k].Name, name)}

\* C5: a requested name with an exact match on the Secondary exchange, no
\* exact match and a substring match on the Primary exchange resolves to the
\* code of an exact Secondary record
C5_ExactSecondaryFirst ==
    ResolutionRan =>
        \A i \in 1..Len(req.scrip_names) :
            LET name == req.scrip_names[i]
                r == get_scrip_code_by_name(db, name)
            IN  (ExactOn("B", name) # {} /\ ExactOn("N", name) = {} /\ SubstringOn("N", name) # {})
                => /\ r.exc = "" /\ r.value # <<>>
                   /\ \E k \in ExactOn("B", name) : db.rows[k].ScripCode = r.value[1]

(***************************************************************************)
(* C6.  Fatal abort on an unresolvable name: when the resolution of some   *)
(* name of the list finds no code, the run ends with an error and writes   *)
(* no artifact for any security listed after that name.                    *)
(***************************************************************************)
NotFound(name) == get_scrip_code_by_name(db, name).value = <<>>

\* the writes made with the candles of a code
WritesOf(code) ==
    {w \in 1..Len(writes) : \E i \in 1..Len(writes[w].rows) : writes[w].rows[i].scrip_code = code}

\* C6: if a name of the list has no match, the run is not in progress and
\* did not succeed, and nothing was written for the securities after it
C6_FatalAbort ==
    ResolutionRan =>
        \A k \in 1..Len(req.scrip_names) :
            NotFound(req.scrip_names[k]) =>
                /\ status.result \notin {"running", "ok"}
                /\ \A j \in (k + 1)..Len(req.scrip_names) :
                      LET r == get_scrip_code_by_name(db, req.scrip_names[j])
                      IN  r.value # <<>> => WritesOf(r.value[1]) = {}
                /\ files = files_before

\* a run whose first name has no match and whose second name has one ended
\* with the error of the resolution
C6_Witness ==
    /\ ResolutionRan /\ Finished
    /\ Len(req.scrip_names) = 2
    /\ NotFound(req.scrip_names[1])
    /\ ~NotFound(req.scrip_names[2])
    /\ status.result = "TypeError"
    /\ writes = <<>>

(***************************************************************************)
(* C7.  Daily path fetch count: a security whose artifact is missing when  *)
(* the loop reaches it gets exactly one historical_data call, for the full *)
(* requested range; a security whose artifact exists gets none.            *)
(***************************************************************************)
\* C7: on the daily path every security the loop has reached has no call if
\* its artifact existed and else exactly one call, for [from_date, to_date];
\* a security not reached yet has none
C7_DailyFetchCount ==
    (Called /\ req.time_period = "1d" /\ scrip_codes_map # <<>>) =>
        /\ Len(visits) <= Len(scrip_codes_map)
        /\ \A k \in 1..Len(scrip_codes_map) :
              IF k > Len(visits) \/ ExistedWhenReached(k)
              THEN CallsFor(SecurityCode(k)) = {}
              ELSE /\ Cardinality(CallsFor(SecurityCode(k))) = 1
                   /\ \A c \in CallsFor(SecurityCode(k)) :
                         /\ calls[c].from_date = req.from_date
                         /\ calls[c].to_date = req.to_date
                         /\ calls[c].time_period = "1d"

\* a daily run over two securities skipped the first, whose artifact
\* existed, and fetched the second once
C7_Witness ==
    /\ Finished /\ status.result = "ok"
    /\ req.time_period = "1d"
    /\ Len(scrip_codes_map) = 2
    /\ ExistedWhenReached(1) /\ ~ExistedWhenReached(2)
    /\ Len(calls) = 1 /\ calls[1].scrip_code = SecurityCode(2)

(***************************************************************************)
(* C8.  A daily empty result is retried on a re-run: the empty answer is   *)
(* no error, no artifact is written for the security, the loop goes on     *)
(* with the next security, and the next process that makes the same        *)
(* request fetches the security again.                                      *)
(***************************************************************************)
\* the positions in scrip_codes_map of a code
SecuritiesOf(code) == {k \in 1..Len(scrip_codes_map) : SecurityCode(k) = code}

\* C8: on the daily path an empty answer leaves no artifact for its security
\* and raises nothing, the loop reaches the next security or returns, and a
\* security whose artifact got an empty answer in the process before is
\* fetched again when the loop reaches it
C8_DailyEmptyRetried ==
    (Called /\ req.time_period = "1d" /\ scrip_codes_map # <<>>) =>
        /\ \A c \in 1..Len(calls) :
              calls[c].answer = "empty" =>
                 \A k \in SecuritiesOf(calls[c].scrip_code) :
                    /\ WritesAt(SecurityPath(k)) = {}
                    /\ ~ArtifactIn(files, SecurityPath(k))
                    /\ c = Len(calls) => status.result \in {"running", "ok"}
                    /\ IF k < Len(scrip_codes_map)
                       THEN (pc = "daily" /\ idx = k + 1) \/ Len(visits) > k
                       ELSE Finished /\ status.result = "ok"
        /\ \A k \in 1..Len(visits) :
              SecurityPath(k) \in empty_before => CallsFor(SecurityCode(k)) # {}

\* the process before got an empty answer for the first security; this daily
\* run got an empty answer for it again, went on and fetched the second one
C8_Witness ==
    /\ Finished /\ status.result = "ok"
    /\ req.time_period = "1d"
    /\ Len(scrip_codes_map) = 2
    /\ SecurityPath(1) \in empty_before
    /\ Len(calls) = 2
    /\ calls[1].scrip_code = SecurityCode(1) /\ calls[1].answer = "empty"
    /\ calls[2].scrip_code = SecurityCode(2) /\ calls[2].answer = "rows"
    /\ ~ArtifactIn(files, SecurityPath(1))

(***************************************************************************)
(* C9.  An unavailable (None) answer aborts the run at once: it is the     *)
(* last call of the run, the run fails, and nothing is written after it,   *)
(* not even for the security in progress.                                   *)
(***************************************************************************)
\* C9: a None answer can only be the last call; when it is, the run has
\* failed with the fetch error, every write was made before that call, the
\* security of the call is the last one reached and has no artifact
C9_UnavailableAborts ==
    Called =>
        /\ \A c \in 1..(Len(calls) - 1) : calls[c].answer # "None"
        /\ (calls # <<>> /\ calls[Len(calls)].answer = "None") =>
              /\ Finished /\ status.result = "CouldNotFetch"
              /\ \A w \in 1..Len(writes) : writes[w].ncalls < Len(calls)
              /\ WritesOf(calls[Len(calls)].scrip_code) = {}
              /\ visits # <<>> /\ visits[Len(visits)].scrip_code = calls[Len(calls)].scrip_code
              /\ \A k \in SecuritiesOf(calls[Len(calls)].scrip_code) :
                    ~ArtifactIn(files, SecurityPath(k))
        /\ status.result = "CouldNotFetch" => calls # <<>> /\ calls[Len(calls)].answer = "None"

\* an intraday run over two securities got rows for the first chunk of the
\* first security and None for its second chunk, and stopped there
C9_Witness ==
    /\ Finished /\ status.result = "CouldNotFetch"
    /\ req.time_period = "30m"
    /\ Len(scrip_codes_map) = 2
    /\ Len(calls) = 2
    /\ calls[1].answer = "rows" /\ calls[2].answer = "None"
    /\ calls[1].scrip_code = SecurityCode(1) /\ calls[2].scrip_code = SecurityCode(1)
    /\ Len(visits) = 1
    /\ writes = <<>> /\ files = files_before

(***************************************************************************)
(* C10.  NoDataInRange: once the chunk loop of a security ran to its end,  *)
(* the run fails with NoDataInRange if no chunk had rows, writing nothing  *)
(* for the security and reaching no later one; else exactly one artifact   *)
(* is written for the security.                                             *)
(***************************************************************************)
\* C10: a security whose chunks were all fetched and had no rows ends the
\* run with NoDataFound, is the last one reached and has no artifact; one
\* with rows in some chunk has exactly one write, and its artifact exists
C10_NoDataInRange ==
    (Called /\ req.time_period # "1d" /\ scrip_codes_map # <<>>) =>
        /\ \A k \in 1..Len(scrip_codes_map) :
              ChunksCompleted(k) =>
                 IF \A c \in CallsFor(SecurityCode(k)) : calls[c].answer # "rows"
                 THEN /\ Finished /\ status.result = "NoDataFound"
                      /\ k = Len(visits)
                      /\ WritesAt(SecurityPath(k)) = {}
                      /\ ~ArtifactIn(files, SecurityPath(k))
                 ELSE /\ Cardinality(WritesAt(SecurityPath(k))) = 1
                      /\ ArtifactIn(files, SecurityPath(k))
                      /\ k = Len(visits) => status.result = "ok"
        /\ status.result = "NoDataFound" =>
              /\ Finished /\ visits # <<>>
              /\ \A c \in CallsFor(SecurityCode(Len(visits))) : calls[c].answer = "empty"

\* an intraday run over two securities got two empty chunks for the first
\* one and failed with NoDataFound without reaching the second
C10_Witness ==
    /\ Finished /\ status.result = "NoDataFound"
    /\ req.time_period = "30m"
    /\ Len(scrip_codes_map) = 2
    /\ Len(calls) = 2
    /\ calls[1].answer = "empty" /\ calls[2].answer = "empty"
    /\ Len(visits) = 1
    /\ writes = <<>>

(***************************************************************************)
(* The steps of a connect(), read from connect_log.                         *)
(***************************************************************************)
\* the positions in connect_log of the calls of the authentication collaborator
AuthCalls == {i \in 1..Len(connect_log) : connect_log[i] \in {"session", "None", "raise"}}

AuthFailures == {i \in AuthCalls : connect_log[i] # "session"}

Backoffs == {i \in 1..Len(connect_log) : connect_log[i] = "sleep"}

RefreshStarted == \E i \in 1..Len(connect_log) : connect_log[i] = "refresh"

(***************************************************************************)
(* C11.  Authentication retry protocol: connect() calls the authentication *)
(* collaborator at most twice; the second call comes only after the first  *)
(* failed (exception or None) and after the backoff; when both calls fail  *)
(* connect() raises a fatal error and the master-list refresh is never     *)
(* started; when a call succeeds no further authentication call is made    *)
(* and the refresh is the next thing run.                                   *)
(***************************************************************************)
\* C11: at most two authentication calls; a second one is the third step,
\* after a failed first call and one backoff; two failures leave connect()
\* failed with no refresh started, and only two failures do; a success is
\* the last authentication call and is followed at once by the refresh; the
\* refresh is started only after a success
C11_AuthRetry ==
    /\ Cardinality(AuthCalls) <= 2
    /\ Cardinality(Backoffs) <= 1
    /\ \A i \in AuthCalls :
          i # 1 => /\ i = 3
                   /\ connect_log[1] \in {"None", "raise"}
                   /\ connect_log[2] = "sleep"
    /\ Cardinality(AuthFailures) = 2 =>
          /\ pc = "returning" /\ status = [op |-> "connect", result |-> "LoginFailed"]
          /\ ~RefreshStarted
          /\ master_before = NoRefresh
    /\ (pc = "returning" /\ status.result = "LoginFailed") => Cardinality(AuthFailures) = 2
    /\ pc \in {"auth", "sleep", "refresh", "returning"} \/ connect_log = <<>>
    /\ \A i \in AuthCalls :
          connect_log[i] = "session" =>
             /\ \A j \in AuthCalls : j <= i
             /\ IF i = Len(connect_log) THEN pc = "refresh" ELSE connect_log[i + 1] = "refresh"
    /\ RefreshStarted => \E i \in AuthCalls : connect_log[i] = "session"
    /\ pc = "refresh" => connect_log # <<>> /\ connect_log[Len(connect_log)] = "session"

\* a connect() whose first login answered None slept, logged in at the
\* second call and ran the refresh
C11_Witness ==
    /\ pc = "returning" /\ status = [op |-> "connect", result |-> "ok"]
    /\ Len(connect_log) > 4
    /\ connect_log[1] = "None" /\ connect_log[2] = "sleep"
    /\ connect_log[3] = "session" /\ connect_log[4] = "refresh"
    /\ Cardinality(AuthCalls) = 2

(***************************************************************************)
(* C12.  Staleness-triggered refresh: check_and_update_scrip_master calls  *)
(* the master-list collaborator exactly once when the cached master list   *)
(* is absent or older than 7 days and not at all when it is younger than 7 *)
(* days; when the collaborator returns no data the operation fails with    *)
(* UpstreamUnavailable, with no new cached master list persisted and the   *)
(* lookup store not rebuilt.                                                *)
(***************************************************************************)
\* the positions in connect_log of the calls of client.get_scrips
MasterCalls ==
    {i \in 1..Len(connect_log) : connect_log[i] \in {"get_scrips:None", "get_scrips:rows"}}

MasterUnavailable == \E i \in 1..Len(connect_log) : connect_log[i] = "get_scrips:None"

\* C12: a refresh that found no master list, or one older than 7 days, made
\* exactly one get_scrips call; one that found a master list younger than 7
\* days made none; a None answer leaves connect() failed with the fetch
\* error, the master list and the lookup table as they were found and
\* neither written; and only a None answer does
C12_StaleRefresh ==
    RefreshStarted =>
        /\ (~master_before.csv.exists \/ master_before.age > 7) => Cardinality(MasterCalls) = 1
        /\ (master_before.csv.exists /\ master_before.age < 7) => MasterCalls = {}
        /\ MasterUnavailable =>
              /\ pc = "returning"
              /\ status = [op |-> "connect", result |-> "CouldNotFetchScripMaster"]
              /\ csv = master_before.csv
              /\ db = master_before.db
              /\ \A i \in 1..Len(connect_log) : connect_log[i] \notin {"to_csv", "to_sql"}
        /\ status.result = "CouldNotFetchScripMaster" => MasterUnavailable

\* a refresh that found a master list 8 days old and a lookup table asked
\* for a new list, got None, and failed leaving both as they were
C12_Witness ==
    /\ RefreshStarted
    /\ master_before.csv.exists /\ master_before.age = 8 /\ master_before.db.exists
    /\ Cardinality(MasterCalls) = 1
    /\ MasterUnavailable
    /\ status.result = "CouldNotFetchScripMaster"
    /\ csv = master_before.csv /\ db = master_before.db

(***************************************************************************)
(* C13.  Wholesale replacement of the lookup store: after every successful *)
(* check_and_update_scrip_master the set of SecurityRecords in the lookup  *)
(* store is exactly the set of records of the persisted master list; no    *)
(* record of the store as it was before survives unless the master list    *)
(* holds it too.                                                            *)
(***************************************************************************)
\* the SecurityRecord a row of the master list or of the lookup table stands for
\* (expiry is optional: an empty field and a NULL both say there is none)
SecurityRecord(row) ==
    [exchange |-> row.Exch, exchangeType |-> row.ExchType, code |-> row.ScripCode,
     name |-> row.Name, expiry |-> IF row.Expiry \in {"", "NaN"} THEN "none" ELSE row.Expiry,
     strikeRate |-> row.StrikeRate, fullName |-> row.FullName]

RecordsOf(rows) == {SecurityRecord(rows[k]) : k \in 1..Len(rows)}

RefreshSucceeded ==
    RefreshStarted /\ pc = "returning" /\ status = [op |-> "connect", result |-> "ok"]

\* C13: after a successful refresh the master list and the lookup table
\* exist and hold the same set of records, as many rows each, and every
\* record of the table as it was before that is still there is a record of
\* the master list
C13_WholesaleReplace ==
    RefreshSucceeded =>
        /\ csv.exists /\ db.exists
        /\ RecordsOf(db.rows) = RecordsOf(csv.rows)
        /\ Len(db.rows) = Len(csv.rows)
        /\ \A rec \in RecordsOf(master_before.db.rows) :
              rec \in RecordsOf(db.rows) => rec \in RecordsOf(csv.rows)

\* a successful refresh replaced a lookup table that held a record the new
\* master list does not hold: the record is gone
C13_Witness ==
    /\ RefreshSucceeded
    /\ master_before.db.exists
    /\ csv # master_before.csv
    /\ \E rec \in RecordsOf(master_before.db.rows) : rec \notin RecordsOf(db.rows)

(***************************************************************************)
(* C14.  SecurityNotFound on no match: for a requested name that matches   *)
(* none of the four tiers, get_scrip_code_by_name yields no code and       *)
(* get_historical_data raises its "No matches found for the scrip name"    *)
(* error; it neither returns a code nor fails in another way.  The code    *)
(* formats result[0] into the log line of the partial search while result  *)
(* is None, so the resolution ends with a TypeError instead.               *)
(***************************************************************************)
\* no record of the lookup table matches the name in any of the four tiers
NoTierMatches(name) ==
    /\ ExactOn("N", name) = {} /\ ExactOn("B", name) = {}
    /\ SubstringOn("N", name) = {} /\ SubstringOn("B", name) = {}

\* the first name of the request that matches no tier, 0 if every name matches
FirstUnmatched ==
    IF \A i \in 1..Len(req.scrip_names) : ~NoTierMatches(req.scrip_names[i]) THEN 0
    ELSE Min({i \in 1..Len(req.scrip_names) : NoTierMatches(req.scrip_names[i])})

\* C14: when a name of the request matches no tier, get_scrip_code_by_name
\* returns None for it without raising, and the run fails with the
\* "No matches found" error
C14_SecurityNotFound ==
    (ResolutionRan /\ FirstUnmatched # 0) =>
        LET r == get_scrip_code_by_name(db, req.scrip_names[FirstUnmatched])
        IN  /\ r.exc = ""
            /\ r.value = <<>>
            /\ status.result = "NoMatchesFound"

(***************************************************************************)
(* C15.  Requested-exchange preference: when a name is an exact match on   *)
(* more than one exchange, resolution returns the code of the record on    *)
(* the exchange given in the request, and it falls back to substring       *)
(* matching only when no exact match exists.  get_scrip_code_by_name takes *)
(* the name only and always tries the Primary exchange first.              *)
(***************************************************************************)
\* the rows of the lookup table on an exchange whose name is the requested one
ExactNameOn(exch, name) ==
    {k \in 1..Len(db.rows) : db.rows[k].Exch = exch /\ db.rows[k].Name = name}

\* C15: a requested name that is the name of records on more than one
\* exchange, the requested one among them, resolves to a record of the
\* requested exchange; and a substring tier gives the result only when the
\* name is the name of no record
C15_RequestedExchangeFirst ==
    ResolutionRan =>
        \A i \in 1..Len(req.scrip_names) :
            LET name == req.scrip_names[i]
                r == get_scrip_code_by_name(db, name)
            IN  /\ (/\ ExactNameOn(req.exchange, name) # {}
                    /\ Cardinality({e \in Exchanges : ExactNameOn(e, name) # {}}) > 1)
                   => /\ r.exc = "" /\ r.value # <<>>
                      /\ \E k \in ExactNameOn(req.exchange, name) :
                            db.rows[k].ScripCode = r.value[1]
                /\ r.tier \in {3, 4} => \A e \in Exchanges : ExactNameOn(e, name) = {}

(***************************************************************************)
(* C16.  Match set of the exact tiers: tier 1 (tier 2) matches a record if *)
(* and only if its name equals the requested name ignoring letter case and *)
(* its exchange is exactly 'N' ('B'); a record of another exchange, such   *)
(* as 'n', is never matched, and a name that differs only in letter case   *)
(* is.  In the code's queries COLLATE NOCASE follows the exchange literal, *)
(* so it is the exchange that is compared ignoring case and the name that  *)
(* is compared exactly.                                                     *)
(***************************************************************************)
\* C16: for every requested name the rows the query of tier 1 (tier 2)
\* selects are the rows of exchange 'N' ('B') whose name is the requested
\* one up to letter case
C16_ExactTierMatchSet ==
    ResolutionRan =>
        \A i \in 1..Len(req.scrip_names) :
            /\ SelectExact(db.rows, req.scrip_names[i], "N") = ExactOn("N", req.scrip_names[i])
            /\ SelectExact(db.rows, req.scrip_names[i], "B") = ExactOn("B", req.scrip_names[i])

(***************************************************************************)
(* C17.  Empty intraday chunks: an empty result for a chunk is not fatal   *)
(* and adds nothing to the output, and the cursor advances as after a      *)
(* non-empty chunk, so the chunk boundaries are the same for every pattern *)
(* of empty and non-empty results; the artifact written is the             *)
(* concatenation, in chunk order, of exactly the non-empty results.        *)
(***************************************************************************)
\* the first and the last day of the i-th chunk of the request in progress,
\* whatever the chunks before it answered
ChunkStart(i) == Day(req.from_date) + (i - 1) * 181

ChunkEnd(i) ==
    IF ChunkStart(i) + 180 < Day(req.to_date) THEN ChunkStart(i) + 180 ELSE Day(req.to_date)

\* the rows of the non-empty answers among the calls cs, in the order of the calls
RECURSIVE RowsOfCalls(_)
RowsOfCalls(cs) ==
    IF cs = <<>> THEN <<>>
    ELSE (IF Head(cs).answer = "rows" THEN Head(cs).rows ELSE <<>>) \o RowsOfCalls(Tail(cs))

\* C17: on the intraday path the i-th call of every security is for the
\* i-th chunk of the range, whichever of the calls before it were empty; an
\* empty answer does not end the run with a fetch error, and the cursor
\* stands at the start of the next chunk after it; and
\* once the chunk loop of a security ran to its end with rows in some
\* chunk, the one artifact written for it holds the rows of its non-empty
\* chunks, in chunk order, and nothing else
C17_EmptyChunks ==
    (Called /\ req.time_period # "1d" /\ scrip_codes_map # <<>>) =>
        /\ (calls # <<>> /\ calls[Len(calls)].answer = "empty")
              => status.result \in {"running", "ok", "NoDataFound"}
        /\ \A k \in 1..Len(scrip_codes_map) :
            LET cs == CallSeq(SecurityCode(k), Len(calls))
            IN  /\ \A i \in 1..Len(cs) :
                      /\ Day(cs[i].from_date) = ChunkStart(i)
                      /\ Day(cs[i].to_date) = ChunkEnd(i)
                /\ (cs # <<>> /\ cs[Len(cs)].answer = "empty" /\ status.result = "running"
                      /\ ChunkEnd(Len(cs)) + 1 < Day(req.to_date))
                   => pc = "chunk" /\ current_date = ChunkStart(Len(cs) + 1)
                /\ (ChunksCompleted(k) /\ RowsOfCalls(cs) # <<>>) =>
                      /\ \A w \in WritesAt(SecurityPath(k)) : writes[w].rows = RowsOfCalls(cs)
                      /\ Cardinality(WritesAt(SecurityPath(k))) = 1
                      /\ \E f \in files : f.file_name = SecurityPath(k) /\ f.rows = RowsOfCalls(cs)

\* a run of three chunks got rows, an empty result and rows again, and wrote
\* the rows of the first and of the third chunk, in that order
C17_Witness ==
    /\ Finished /\ status.result = "ok"
    /\ req.time_period = "30m"
    /\ Len(calls) = 3
    /\ calls[1].answer = "rows" /\ calls[2].answer = "empty" /\ calls[3].answer = "rows"
    /\ Len(writes) = 1
    /\ writes[1].rows = calls[1].rows \o calls[3].rows
    /\ calls[1].rows # calls[3].rows

(***************************************************************************)
(* C18.  Fuzzy-resolution warning: get_scrip_code_by_name emits the        *)
(* "partially searched, please verify" signal if and only if resolution    *)
(* succeeded through tier 3 or tier 4; it is never emitted when tier 1 or  *)
(* tier 2 gave the result; and emitting it never changes the outcome of    *)
(* the resolution.  The statement that emits the signal runs whenever the  *)
(* substring tiers were tried, and raises when they found nothing.         *)
(***************************************************************************)
\* the names of the request that get_historical_data resolves: all of them
\* up to the first whose resolution gives no code
ResolvedNames ==
    {i \in 1..Len(req.scrip_names) : \A j \in 1..(i - 1) : ~NotFound(req.scrip_names[j])}

\* C18: for every name resolved, the signal is emitted exactly when tier 3
\* or tier 4 gave the result, and the resolution ends as the tiers decide:
\* with the code of the tier that matched, or with no code and no exception
\* when none did
C18_FuzzyWarning ==
    ResolutionRan =>
        \A i \in ResolvedNames :
            LET r == get_scrip_code_by_name(db, req.scrip_names[i])
            IN  /\ r.warned <=> r.tier \in {3, 4}
                /\ r.tier \in {1, 2} => ~r.warned
                /\ r.exc = ""
                /\ r.value # <<>> <=> r.tier \in 1..4

(***************************************************************************)
(* C19.  Resolution precedes all fetching: every name of the request is    *)
(* resolved to a code and back to a canonical name before the first        *)
(* historical_data call; so when any name of the list, at any position,    *)
(* fails to resolve, the run issues no historical_data call and writes no  *)
(* artifact, also for the securities listed before the failing name.       *)
(***************************************************************************)
\* the name resolves to a code, and the code back to a name
Resolves(name) ==
    LET r == get_scrip_code_by_name(db, name)
    IN  /\ r.exc = "" /\ r.value # <<>>
        /\ get_scrip_name_by_code(db, r.value[1]) # <<>>

\* C19: a run that has made a call, reached a security or written an
\* artifact has resolved every name of its request, and its map holds the
\* code and the canonical name of each; a run with a name that does not
\* resolve has failed with no call, no security reached and nothing written
C19_ResolveBeforeFetch ==
    ResolutionRan =>
        /\ (calls # <<>> \/ visits # <<>> \/ writes # <<>> \/ status.result \in {"running", "ok"}) =>
              \A i \in 1..Len(req.scrip_names) :
                 /\ Resolves(req.scrip_names[i])
                 /\ LET code == get_scrip_code_by_name(db, req.scrip_names[i]).value[1]
                    IN  \E k \in 1..Len(scrip_codes_map) :
                           /\ scrip_codes_map[k].scrip_code = code
                           /\ scrip_codes_map[k].scrip_name = get_scrip_name_by_code(db, code)[1][1]
        /\ (\E i \in 1..Len(req.scrip_names) : ~Resolves(req.scrip_names[i])) =>
              /\ Finished /\ status.result \notin {"running", "ok"}
              /\ calls = <<>> /\ visits = <<>> /\ writes = <<>>
              /\ files = files_before
              /\ scrip_codes_map = <<>>

\* a run whose first name resolves and whose second does not has failed
\* without a call, although the artifact of the first security is missing
C19_Witness ==
    /\ ResolutionRan /\ Finished
    /\ Len(req.scrip_names) = 2
    /\ Resolves(req.scrip_names[1])
    /\ ~Resolves(req.scrip_names[2])
    /\ \A f \in files :
          f.file_name.scrip_name #
             get_scrip_name_by_code(db, get_scrip_code_by_name(db, req.scrip_names[1]).value[1])[1][1]
    /\ calls = <<>> /\ writes = <<>> /\ visits = <<>>
    /\ status.result \notin {"running", "ok"}

(***************************************************************************)
(* C20.  Existing artifacts are never touched: in every run, on both       *)
(* paths, save_to_csv is only called for a path at which no artifact       *)
(* existed when the security was checked, so every artifact present at the *)
(* start of a run has the same content at its end, whether the run         *)
(* succeeds or aborts.                                                      *)
(***************************************************************************)
\* C20: every write of the run went to a path that held no artifact when
\* the run was called and that no write of the run had gone to before, for
\* a security found missing when it was checked; and every artifact that
\* was there when the run was called is there with the same rows
C20_ExistingUntouched ==
    Called =>
        /\ \A w \in 1..Len(writes) :
              /\ ~ArtifactIn(files_before, writes[w].file_name)
              /\ \A v \in 1..(w - 1) : writes[v].file_name # writes[w].file_name
              /\ \E k \in 1..Len(visits) :
                    /\ k <= Len(scrip_codes_map)
                    /\ SecurityPath(k) = writes[w].file_name
                    /\ ~ExistedWhenReached(k)
        /\ \A f \in files_before : f \in files
        /\ \A f \in files : f \in files_before \/ WritesAt(f.file_name) # {}

\* a run that found the artifact of its first security and not that of its
\* second wrote the second and left the first as it was; and a run that
\* found an artifact aborted on its other security and left it as it was
C20_Witness ==
    /\ Finished
    /\ Len(scrip_codes_map) = 2
    /\ ArtifactIn(files_before, SecurityPath(1))
    /\ ~ArtifactIn(files_before, SecurityPath(2))
    /\ \/ status.result = "ok" /\ Len(writes) = 1 /\ writes[1].file_name = SecurityPath(2)
       \/ status.result = "CouldNotFetch" /\ writes = <<>>
    /\ \A f \in files_before : f \in files

(***************************************************************************)
(* C21.  No empty artifact is ever written: every artifact written on the  *)
(* daily or on the intraday path holds at least one row, so an artifact,   *)
(* the only sign that a security was downloaded, never comes from a fetch  *)
(* that returned zero rows.                                                 *)
(***************************************************************************)
\* C21: every artifact on disk holds a row; every write of the run in
\* progress wrote a row, and came after a call for the security of its
\* path that answered with rows; and a security whose calls all answered
\* without rows has no artifact written by the run
C21_NoEmptyArtifact ==
    /\ \A f \in files : f.rows # <<>>
    /\ Called =>
          /\ \A w \in 1..Len(writes) :
                /\ writes[w].rows # <<>>
                /\ \E k \in 1..Len(scrip_codes_map) :
                      /\ SecurityPath(k) = writes[w].file_name
                      /\ \E c \in CallsFor(SecurityCode(k)) :
                            c <= writes[w].ncalls /\ calls[c].answer = "rows"
          /\ \A k \in 1..Len(scrip_codes_map) :
                (\A c \in CallsFor(SecurityCode(k)) : calls[c].answer # "rows")
                => WritesAt(SecurityPath(k)) = {}

\* an intraday run got an empty result for its first security, which ended
\* it with no artifact written, on a disk that holds artifacts of runs before
C21_Witness ==
    /\ Finished /\ status.result = "NoDataFound"
    /\ req.time_period = "30m"
    /\ files_before # {}
    /\ Len(calls) = 1 /\ calls[1].answer = "empty"
    /\ writes = <<>>
    /\ files = files_before
    /\ ~ArtifactIn(files, SecurityPath(1))

====
